---- MODULE Spec2Model ----
(***************************************************************************)
(* Model of multi-agent-fix: the control loop of cli.main, which for each  *)
(* failing test generates candidate fixes (agent.run_parallel_agents),     *)
(* applies each one (runner.apply_fix), re-runs the tests                  *)
(* (runner.run_tests) and keeps or reverts it.                             *)
(*                                                                         *)
(* A test identifier is the sequence of its parts around "::", so          *)
(* <<"a", "x">> is "a::x" and <<"junk">> is an identifier without "::".    *)
(* A file's content is a string; Absent says the file does not exist.      *)
(***************************************************************************)
EXTENDS Integers, Sequences, FiniteSets, TLC

\* ---------------------------------------------------------------- bounds
\* Longest list of failing tests the initial run reports.
MaxTests == 2
\* Largest --agents value tried (0 is tried too).
MaxAgents == 2
\* Largest --max-attempts value tried (0 is tried too).
MaxAttemptsCfg == 2

\* ------------------------------------------------------------ the universe
Absent == "ABSENT"
Empty == ""
None == "None"
\* The attempt loop's variable before the loop binds it.
NoAttempt == -1
\* The exit status of a process still running.
NoExit == -1

\* Project files, named by the location a path resolves to.
Files == {"a", "b"}
\* Contents the project starts with, and contents the agents propose.
OrigContents == {"oa", "ob"}
CandContents == {"c1"}

\* Identifiers the test output can name.
TestIds == {<<"a", "x">>, <<"b", "z">>, <<"junk">>}

Frameworks == {"pytest", "npm", "cargo", "go"}

\* Sequences without repetition over S, of length lo..hi.
InjSeqs(S, lo, hi) ==
    {s \in UNION {[1..k -> S] : k \in lo..hi} :
        \A i, j \in DOMAIN s : i # j => s[i] # s[j]}

InList(x, s) == \E i \in DOMAIN s : s[i] = x

\* --------------------------------------------------------------- runner.py
\* TestResult(passed, output, failed_tests); output plays no part in control.
TestResult(passed, failed_tests) ==
    [passed |-> passed, failed_tests |-> failed_tests]

\* Lists the initial run can report.
InitialLists == InjSeqs(TestIds, 0, MaxTests)
\* Lists a re-run can report. main asks of a re-run's list only whether
\* test_name is in it, so the lists of at most one identifier stand for all.
RerunLists == InjSeqs(TestIds, 0, 1)

\* run_tests: the subprocess ran (any exit status, any parsed list among
\* lists), or it timed out / could not start (passed=False, failed_tests=[]).
run_tests(lists) ==
    {TestResult(p, l) : p \in BOOLEAN, l \in lists}
    \cup {TestResult(FALSE, <<>>)}

\* FailedTest(name, file, error, source)
FailedTest(name, file, source) ==
    [name |-> name, file |-> file, source |-> source]

\* get_test_context: the file before the first "::" when the framework is
\* pytest, the identifier has a "::" and that file exists.
get_test_context_AnyFramework(d, test_name, fw) ==
    IF Len(test_name) > 1 /\ d[test_name[1]] # Absent
    THEN FailedTest(test_name, test_name[1], d[test_name[1]])
    ELSE FailedTest(test_name, Empty, Empty)
get_test_context(d, test_name, fw) ==
    IF fw = "pytest" /\ Len(test_name) > 1 /\ d[test_name[1]] # Absent
    THEN FailedTest(test_name, test_name[1], d[test_name[1]])
    ELSE FailedTest(test_name, Empty, Empty)

\* Outcomes of Path.write_text: the file is written, or the write raises
\* and the file is as it was.
WriteOutcomes == {"ok", "fail"}

\* apply_fix: the project files after the call, and the value returned.
apply_fix(d, file, new_content, io) ==
    IF io = "ok"
    THEN [disk |-> [d EXCEPT ![file] = new_content], ok |-> TRUE]
    ELSE [disk |-> d, ok |-> FALSE]

\* ---------------------------------------------------------------- agent.py
\* FixAttempt(agent_id, file, new_content, explanation): main reads file and
\* new_content; agent_id and explanation are only printed.
FixAttempt(file, new_content) ==
    [file |-> file, new_content |-> new_content]

\* generate_fix: a parsed answer naming any file, with any content, or the
\* error / unparsable answer: test_file with empty content.
generate_fix(test_file) ==
    {FixAttempt(f, c) : f \in Files, c \in CandContents}
    \cup {FixAttempt(test_file, Empty)}

\* Whether run_parallel_agents keeps a finished task's result.
KeepFix(fix) == fix.new_content # Empty

\* run_parallel_agents: every list it can return for num_agents >= 1: the
\* kept results of the num_agents tasks, in their order of completion.
run_parallel_agents(test_file, num_agents) ==
    {SelectSeq(done, KeepFix) :
        done \in [1..num_agents -> generate_fix(test_file)]}

\* ThreadPoolExecutor(max_workers=num_agents) raises ValueError for <= 0.
PoolRaises(num_agents) == num_agents <= 0

\* ------------------------------------------------------------------ cli.py
VARIABLES
    pc,               \* position in main
    disk,             \* project files: file -> content, or Absent
    framework, agents, dry_run, max_attempts,     \* the command line
    result,           \* the initial run's TestResult
    fixed_count,
    ti,               \* position of test_name in result.failed_tests
    test_ctx,
    attempt,          \* the attempt loop's variable, NoAttempt before it is bound
    fixes, fi,        \* the list run_parallel_agents returned, position of fix
    original_content,
    apply_ok,         \* what the last apply_fix of a fix returned
    new_result,       \* the re-run's TestResult
    exit_code,        \* process exit status, NoExit while running
    status,           \* per test: Pending, Attempting, Fixed, Exhausted, NoContext
    gen_calls,        \* run_parallel_agents calls made for the current test
    got_fixes,        \* whether one of them returned a fix
    wrote,            \* whether apply_fix was called for the current test
    reran,            \* whether the tests were re-run for the current test
    pre_apply,        \* content of fix's file when its apply_fix was called
    writer,           \* per file: what the last write to reach it was
    \* inside run_parallel_agents, when its threads are followed step by step
    temperatures,     \* the local list of temperatures
    tasks,            \* the submitted tasks, in order of submission
    done_order,       \* positions of the finished tasks, in order of finishing
    snap,             \* how many tasks had finished when as_completed began
    early,            \* as_completed: finished when it began, not yet yielded
    late,             \* as_completed: finished since, not yet yielded
    yielded,          \* positions of the tasks as_completed has yielded
    pool_fixes,       \* the local list fixes
    \* inside detect_test_framework and parse_failed_tests
    present,          \* names of the files in the project directory
    output,           \* the test run's output, as its lines
    li,               \* how many lines of output the loop has taken
    failed            \* the local list failed

\* The variables of main, and those of a call of run_parallel_agents.
main == <<pc, disk, framework, agents, dry_run, max_attempts, result,
          fixed_count, ti, test_ctx, attempt, fixes, fi, original_content,
          apply_ok, new_result, exit_code, status, gen_calls, got_fixes,
          wrote, reran, pre_apply, writer>>
pool == <<temperatures, tasks, done_order, snap, early, late, yielded,
          pool_fixes>>

probe == <<present, output, li, failed>>

vars == <<main, pool, probe>>

config == <<framework, agents, dry_run, max_attempts>>
tallies == <<gen_calls, got_fixes, wrote, reran>>

NoResult == TestResult(FALSE, <<>>)
NoCtx == FailedTest(<<>>, Empty, Empty)

test_name == result.failed_tests[ti]
fix == fixes[fi]

\* fixes, fix, original_content and the last apply's outcome are not read
\* again once the loop over fixes is left: they are rebound first. The model
\* forgets them there.
ForgetFixes ==
    /\ fixes' = <<>>
    /\ fi' = 0
    /\ original_content' = Empty
    /\ apply_ok' = TRUE
    /\ pre_apply' = None

\* Positions inside the attempt loop of the current test.
InLoop == pc \in {"for_attempt", "for_fix", "run_tests", "judge"}

\* Who wrote a file last: nobody, a candidate under test ("live"), a
\* candidate since accepted or rejected, or a revert.
WriterAfter(w, file, io, who) ==
    IF io = "ok" THEN [w EXCEPT ![file] = who] ELSE w

\* No call of run_parallel_agents is being followed.
NoPool ==
    /\ temperatures = <<>>
    /\ tasks = <<>>
    /\ done_order = <<>>
    /\ snap = 0
    /\ early = {}
    /\ late = <<>>
    /\ yielded = <<>>
    /\ pool_fixes = <<>>

\* No call of detect_test_framework or parse_failed_tests is being followed.
NoProbe ==
    /\ present = {}
    /\ output = <<>>
    /\ li = 0
    /\ failed = <<>>

Init ==
    /\ pc = "start"
    /\ disk \in {d \in [Files -> OrigContents \cup {Absent}] :
                    d["a"] = "oa" /\ d["b"] \in {"ob", Absent}}
    /\ framework \in Frameworks
    /\ agents \in 0..MaxAgents
    /\ dry_run \in BOOLEAN
    /\ max_attempts \in 0..MaxAttemptsCfg
    /\ result = NoResult
    /\ fixed_count = 0
    /\ ti = 1
    /\ test_ctx = NoCtx
    /\ attempt = NoAttempt
    /\ fixes = <<>>
    /\ fi = 0
    /\ original_content = Empty
    /\ apply_ok = TRUE
    /\ new_result = NoResult
    /\ exit_code = NoExit
    /\ status = <<>>
    /\ gen_calls = 0
    /\ got_fixes = FALSE
    /\ wrote = FALSE
    /\ reran = FALSE
    /\ pre_apply = None
    /\ writer = [f \in Files |-> "nobody"]
    /\ NoPool
    /\ NoProbe

\* cli.py 64-83: the initial run; all passing returns, nothing parsed exits 1.
RunInitialTests ==
    /\ pc = "start"
    /\ \E r \in run_tests(InitialLists) :
         /\ result' = r
         /\ IF r.passed
            THEN pc' = "done" /\ exit_code' = 0
            ELSE IF r.failed_tests = <<>>
            THEN pc' = "done" /\ exit_code' = 1
            ELSE pc' = "for_test" /\ exit_code' = exit_code
         /\ status' = [i \in DOMAIN r.failed_tests |-> "Pending"]
    /\ UNCHANGED <<disk, config, fixed_count, ti, test_ctx, attempt, fixes,
                   fi, original_content, apply_ok, new_result, tallies,
                   pre_apply, writer>>
    /\ UNCHANGED <<pool, probe>>

\* cli.py 89: whether the test has source to show the agents.
HasSource_Always(ctx) == TRUE
HasSource(ctx) == ctx.source # Empty

\* cli.py 84-91: the next test, its context; without source, the next one.
ForTest ==
    /\ pc = "for_test"
    /\ ti <= Len(result.failed_tests)
    /\ LET ctx == get_test_context(disk, test_name, framework) IN
         /\ test_ctx' = ctx
         /\ IF ~HasSource(ctx)
            THEN /\ status' = [status EXCEPT ![ti] = "NoContext"]
                 /\ ti' = ti + 1
                 /\ pc' = "for_test"
            ELSE /\ status' = [status EXCEPT ![ti] = "Attempting"]
                 /\ ti' = ti
                 /\ pc' = "for_attempt"
    /\ attempt' = NoAttempt
    /\ gen_calls' = 0
    /\ got_fixes' = FALSE
    /\ wrote' = FALSE
    /\ reran' = FALSE
    /\ UNCHANGED <<disk, config, result, fixed_count, fixes, fi,
                   original_content, apply_ok, new_result, exit_code,
                   pre_apply, writer>>
    /\ UNCHANGED <<pool, probe>>

\* The value range(max_attempts) binds next, given the one bound now.
NextAttempt(a) == IF a = NoAttempt THEN 0 ELSE a + 1
\* Whether range(max_attempts) has that value.
InRange_OffByOne(a, n) == a <= n
InRange(a, n) == a < n

\* cli.py 112-114: no fixes generated: on to the next attempt.
OnNoFixes_GiveUp ==
    /\ status' = [status EXCEPT ![ti] = "Exhausted"]
    /\ ti' = ti + 1
    /\ pc' = "for_test"
OnNoFixes ==
    /\ pc' = "for_attempt"
    /\ UNCHANGED <<status, ti>>

\* cli.py 93-119, 162-163: the attempt loop's head. Out of attempts: "Could
\* not fix". Else the agents run; no fixes: next attempt; else the test
\* file is read and the fixes are tried.
ForAttempt ==
    /\ pc = "for_attempt"
    /\ IF ~InRange(NextAttempt(attempt), max_attempts)
       THEN /\ status' = [status EXCEPT ![ti] = "Exhausted"]
            /\ ti' = ti + 1
            /\ pc' = "for_test"
            /\ UNCHANGED <<attempt, fixes, fi, original_content, gen_calls,
                           got_fixes, exit_code>>
       ELSE /\ attempt' = NextAttempt(attempt)
            /\ gen_calls' = gen_calls + 1
            /\ IF PoolRaises(agents)
               THEN /\ pc' = "crashed"
                    /\ exit_code' = 1
                    /\ UNCHANGED <<fixes, fi, original_content, got_fixes,
                                   status, ti>>
               ELSE /\ \E fs \in run_parallel_agents(test_ctx.file, agents) :
                         /\ fixes' = fs
                         /\ IF fs = <<>>
                            THEN /\ OnNoFixes
                                 /\ UNCHANGED <<fi, original_content,
                                                got_fixes>>
                            ELSE /\ pc' = "for_fix"
                                 /\ fi' = 0
                                 /\ original_content' =
                                      IF disk[test_ctx.file] # Absent
                                      THEN disk[test_ctx.file] ELSE Empty
                                 /\ got_fixes' = TRUE
                                 /\ UNCHANGED <<status, ti>>
                    /\ exit_code' = exit_code
    /\ UNCHANGED <<disk, config, result, fixed_count, test_ctx, apply_ok,
                   new_result, wrote, reran, pre_apply, writer>>
    /\ UNCHANGED <<pool, probe>>

\* cli.py 136: the re-run follows only an apply_fix that returned True.
AfterApply_Unchecked(ok) == "run_tests"
AfterApply(ok) == IF ok THEN "run_tests" ELSE "for_fix"

\* cli.py 122-133: with --dry-run a fix is shown and the loop goes on.
ShowOnly_Never(flag) == FALSE
ShowOnly(flag) == flag

\* cli.py 121-136, 156-158: the next fix. None left: next attempt. Dry run:
\* shown, not applied. Else apply_fix; if it returns False, the next fix.
ForFix ==
    /\ pc = "for_fix"
    /\ IF fi + 1 > Len(fixes)
       THEN /\ pc' = "for_attempt"
            /\ ForgetFixes
            /\ UNCHANGED <<disk, wrote, writer>>
       ELSE /\ fi' = fi + 1
            /\ IF ShowOnly(dry_run)
               THEN /\ pc' = "for_fix"
                    /\ UNCHANGED <<disk, apply_ok, wrote, pre_apply, writer>>
               ELSE \E io \in WriteOutcomes :
                      LET f == fixes[fi + 1]
                          r == apply_fix(disk, f.file, f.new_content, io) IN
                        /\ disk' = r.disk
                        /\ apply_ok' = r.ok
                        /\ writer' = WriterAfter(writer, f.file, io, "live")
                        /\ pre_apply' = disk[f.file]
                        /\ wrote' = TRUE
                        /\ pc' = AfterApply(r.ok)
            /\ UNCHANGED <<fixes, original_content>>
    /\ UNCHANGED <<config, result, fixed_count, ti, test_ctx, attempt,
                   new_result, exit_code, status, gen_calls, got_fixes,
                   reran>>
    /\ UNCHANGED <<pool, probe>>

\* cli.py 144: the re-run after an apply.
RunTests ==
    /\ pc = "run_tests"
    /\ new_result' \in run_tests(RerunLists)
    /\ reran' = TRUE
    /\ pc' = "judge"
    /\ UNCHANGED <<disk, config, result, fixed_count, ti, test_ctx, attempt,
                   fixes, fi, original_content, apply_ok, exit_code, status,
                   gen_calls, got_fixes, wrote, pre_apply, writer>>
    /\ UNCHANGED <<pool, probe>>

\* cli.py 146: the condition under which the fix is kept.
Accepted_PassedOnly(r, name) == r.passed
Accepted(r, name) == r.passed \/ ~InList(name, r.failed_tests)

\* cli.py 147-152, 160-161: the fix is kept: counted, both loops left.
OnAccept_NoBreak ==
    /\ fixed_count' = fixed_count + 1
    /\ status' = [status EXCEPT ![ti] = "Fixed"]
    /\ writer' = [writer EXCEPT ![fix.file] = "accepted"]
    /\ ti' = ti
    /\ pc' = "for_fix"
    /\ UNCHANGED <<disk, fixes, fi, original_content, apply_ok, pre_apply>>
OnAccept ==
    /\ fixed_count' = fixed_count + 1
    /\ status' = [status EXCEPT ![ti] = "Fixed"]
    /\ writer' = [writer EXCEPT ![fix.file] = "accepted"]
    /\ ti' = ti + 1
    /\ pc' = "for_test"
    /\ ForgetFixes
    /\ UNCHANGED disk

\* cli.py 153-155: the file the fix names is written with original_content
\* (what apply_fix returns is dropped), and the next fix is tried.
OnReject ==
    /\ \E io \in WriteOutcomes :
         /\ disk' = apply_fix(disk, fix.file, original_content, io).disk
         /\ writer' = IF io = "ok"
                      THEN [writer EXCEPT ![fix.file] = "revert"]
                      ELSE [writer EXCEPT ![fix.file] = "rejected"]
    /\ pc' = "for_fix"
    /\ UNCHANGED <<fixed_count, status, ti, fixes, fi, original_content,
                   apply_ok, pre_apply>>

\* cli.py 146-161: the verdict on the applied fix.
Judge ==
    /\ pc = "judge"
    /\ IF Accepted(new_result, test_name) THEN OnAccept ELSE OnReject
    /\ new_result' = NoResult
    /\ UNCHANGED <<config, result, test_ctx, attempt, exit_code, tallies>>
    /\ UNCHANGED <<pool, probe>>

\* cli.py 166-172: the exit status after the final count: sys.exit(1) when
\* nothing was fixed, else main returns.
ExitStatus_AlwaysZero(n) == 0
ExitStatus(n) == IF n > 0 THEN 0 ELSE 1

\* cli.py 165-172: after the last test, the count; exit 1 when it is 0.
Report ==
    /\ pc = "for_test"
    /\ ti > Len(result.failed_tests)
    /\ pc' = "done"
    /\ exit_code' = ExitStatus(fixed_count)
    /\ UNCHANGED <<disk, config, result, fixed_count, ti, test_ctx, attempt,
                   fixes, fi, original_content, apply_ok, new_result, status,
                   tallies, pre_apply, writer>>
    /\ UNCHANGED <<pool, probe>>

Next ==
    \/ RunInitialTests
    \/ ForTest
    \/ ForAttempt
    \/ ForFix
    \/ RunTests
    \/ Judge
    \/ Report

Spec == Init /\ [][Next]_vars

\* ------------------------------------- run_parallel_agents, thread by thread
\* Largest --agents value tried when the threads of a call are followed.
MaxPoolAgents == 2
\* Largest --agents value tried when only the submissions are followed.
MaxCount == 6

\* agent.py 203: the preset temperatures, in tenths.
Presets == <<3, 5, 7, 9, 10>>

\* s[:n]
Slice(s, n) ==
    LET m == IF n >= 0 THEN n ELSE Len(s) + n IN
      SubSeq(s, 1, IF m < 0 THEN 0 ELSE IF m > Len(s) THEN Len(s) ELSE m)

\* A submitted call generate_fix(agent_id, ..., temperature): queued, then
\* running, then returned with a FixAttempt or raised.
Task(agent_id, temperature) ==
    [agent_id |-> agent_id, temperature |-> temperature,
     state |-> "queued", out |-> FixAttempt(Empty, Empty)]

IsDone(t) == t.state \in {"returned", "raised"}

\* cli.py 93-104, agent.py 203-206: the attempt loop's head as in ForAttempt,
\* up to the pool's construction.
CallAgents ==
    /\ pc = "for_attempt"
    /\ IF ~InRange(NextAttempt(attempt), max_attempts)
       THEN /\ status' = [status EXCEPT ![ti] = "Exhausted"]
            /\ ti' = ti + 1
            /\ pc' = "for_test"
            /\ UNCHANGED <<attempt, gen_calls, exit_code, pool>>
       ELSE /\ attempt' = NextAttempt(attempt)
            /\ gen_calls' = gen_calls + 1
            /\ temperatures' = Slice(Presets, agents)
            /\ tasks' = <<>>
            /\ done_order' = <<>>
            /\ snap' = 0
            /\ early' = {}
            /\ late' = <<>>
            /\ yielded' = <<>>
            /\ pool_fixes' = <<>>
            /\ IF PoolRaises(agents)
               THEN pc' = "crashed" /\ exit_code' = 1
               ELSE pc' = "submit" /\ exit_code' = exit_code
            /\ UNCHANGED <<status, ti>>
    /\ UNCHANGED <<disk, config, result, fixed_count, test_ctx, fixes, fi,
                   original_content, apply_ok, new_result, got_fixes, wrote,
                   reran, pre_apply, writer, probe>>

\* agent.py 215: temperatures[i % len(temperatures)]
PickTemperature_First(temps, i) == temps[1]
PickTemperature(temps, i) == temps[(i % Len(temps)) + 1]

\* agent.py 207-218: executor.submit for the next i of range(num_agents).
Submit ==
    /\ pc = "submit"
    /\ Len(tasks) < agents
    /\ LET i == Len(tasks) IN
         tasks' = Append(tasks, Task(i, PickTemperature(temperatures, i)))
    /\ UNCHANGED <<main, probe, temperatures, done_order, snap, early, late,
                   yielded, pool_fixes>>

\* A worker thread takes a queued task and calls generate_fix.
TaskStart(k) ==
    /\ k \in DOMAIN tasks
    /\ tasks[k].state = "queued"
    /\ tasks' = [tasks EXCEPT ![k].state = "running"]
    /\ UNCHANGED <<main, probe, temperatures, done_order, snap, early, late,
                   yielded, pool_fixes>>

\* agent.py 131-191: generate_fix ends: get_api_config raises, or a
\* FixAttempt is returned. A waiting as_completed is told.
TaskFinish(k) ==
    /\ k \in DOMAIN tasks
    /\ tasks[k].state = "running"
    /\ \/ tasks' = [tasks EXCEPT ![k].state = "raised"]
       \/ \E f \in generate_fix(test_ctx.file) :
            tasks' = [tasks EXCEPT ![k].state = "returned", ![k].out = f]
    /\ done_order' = Append(done_order, k)
    /\ late' = IF pc = "collect" THEN Append(late, k) ELSE late
    /\ UNCHANGED <<main, probe, temperatures, snap, early, yielded, pool_fixes>>

\* agent.py 220: as_completed(futures) begins: the futures already
\* finished are put in a set.
AsCompletedStart ==
    /\ pc = "submit"
    /\ Len(tasks) = agents
    /\ pc' = "collect"
    /\ early' = {k \in DOMAIN tasks : IsDone(tasks[k])}
    /\ snap' = Len(done_order)
    /\ UNCHANGED <<disk, config, result, fixed_count, ti, test_ctx, attempt,
                   fixes, fi, original_content, apply_ok, new_result,
                   exit_code, status, tallies, pre_apply, writer>>
    /\ UNCHANGED <<temperatures, tasks, done_order, late, yielded, pool_fixes,
                   probe>>

\* agent.py 220-226: as_completed yields a future: any of those finished
\* when it began (a set, in no order), then the others as they finished; a
\* result with content is appended, an exception is passed over.
Yield ==
    /\ pc = "collect"
    /\ \E k \in DOMAIN tasks :
         /\ \/ k \in early
            \/ early = {} /\ late # <<>> /\ k = Head(late)
         /\ early' = early \ {k}
         /\ late' = IF k \in early THEN late ELSE Tail(late)
         /\ yielded' = Append(yielded, k)
         /\ pool_fixes' = IF tasks[k].state = "returned" /\ KeepFix(tasks[k].out)
                          THEN Append(pool_fixes, tasks[k].out)
                          ELSE pool_fixes
    /\ UNCHANGED <<main, probe, temperatures, tasks, done_order, snap>>

\* agent.py 220: the loop over as_completed ends when it has yielded every
\* one of the n futures.
Collected_First(y, n) == Len(y) >= 1
Collected(y, n) == Len(y) = n

\* agent.py 220, 206, 228, cli.py 104-119: every future was yielded, the
\* pool is shut down and fixes is returned; main goes on as in ForAttempt.
ReturnFixes ==
    /\ pc = "collect"
    /\ Collected(yielded, agents)
    /\ fixes' = pool_fixes
    /\ IF pool_fixes = <<>>
       THEN /\ OnNoFixes
            /\ UNCHANGED <<fi, original_content, got_fixes>>
       ELSE /\ pc' = "for_fix"
            /\ fi' = 0
            /\ original_content' = IF disk[test_ctx.file] # Absent
                                   THEN disk[test_ctx.file] ELSE Empty
            /\ got_fixes' = TRUE
            /\ UNCHANGED <<status, ti>>
    /\ UNCHANGED <<disk, config, result, fixed_count, test_ctx, attempt,
                   apply_ok, new_result, exit_code, gen_calls, wrote, reran,
                   pre_apply, writer, pool, probe>>

\* main after an initial run that reported the failing tests of the list
\* failing, in a pytest project, with --max-attempts 1 and n agents.
AfterInitialRun(n, failing) ==
    /\ pc = "for_test"
    /\ disk = [f \in Files |-> IF f = "a" THEN "oa" ELSE "ob"]
    /\ framework = "pytest"
    /\ agents = n
    /\ dry_run = FALSE
    /\ max_attempts = 1
    /\ result = TestResult(FALSE, failing)
    /\ fixed_count = 0
    /\ ti = 1
    /\ test_ctx = NoCtx
    /\ attempt = NoAttempt
    /\ fixes = <<>>
    /\ fi = 0
    /\ original_content = Empty
    /\ apply_ok = TRUE
    /\ new_result = NoResult
    /\ exit_code = NoExit
    /\ status = [i \in DOMAIN failing |-> "Pending"]
    /\ gen_calls = 0
    /\ got_fixes = FALSE
    /\ wrote = FALSE
    /\ reran = FALSE
    /\ pre_apply = None
    /\ writer = [f \in Files |-> "nobody"]
    /\ NoPool
    /\ NoProbe

PoolInit == \E n \in 0..MaxPoolAgents : AfterInitialRun(n, << <<"a", "x">> >>)

PoolNext ==
    \/ ForTest
    \/ CallAgents
    \/ Submit
    \/ \E k \in 1..MaxPoolAgents : TaskStart(k)
    \/ \E k \in 1..MaxPoolAgents : TaskFinish(k)
    \/ AsCompletedStart
    \/ Yield
    \/ ReturnFixes
    \/ ForFix
    \/ RunTests
    \/ Judge
    \/ Report

PoolSpec == PoolInit /\ [][PoolNext]_vars

\* The submissions alone, for up to MaxCount agents.
DispatchInit == \E n \in 1..MaxCount : AfterInitialRun(n, << <<"a", "x">> >>)

DispatchNext ==
    \/ ForTest
    \/ CallAgents
    \/ Submit
    \/ \E k \in 1..MaxCount : TaskStart(k)
    \/ AsCompletedStart

DispatchSpec == DispatchInit /\ [][DispatchNext]_vars

\* ----------------------------------------- main, with tests that are a
\* function of the files
\* A project whose test a::x asks for the new content of a and the old
\* content of b, and whose test b::z asks for the new content of b.
TwoTests == << <<"a", "x">>, <<"b", "z">> >>
PassesOn(t, d) ==
    IF t = <<"a", "x">>
    THEN d["a"] = "c1" /\ d["b"] # "c1"
    ELSE d["b"] = "c1"
Fails(d, t) == ~PassesOn(t, d)
\* run_tests on the files d: the tests that fail, in the order of the run.
run_tests_on(d) ==
    LET failing == SelectSeq(TwoTests, LAMBDA t : Fails(d, t)) IN
      TestResult(failing = <<>>, failing)

\* cli.py 144: the re-run after an apply, on the files as they are.
RunTestsOnDisk ==
    /\ pc = "run_tests"
    /\ new_result' = run_tests_on(disk)
    /\ reran' = TRUE
    /\ pc' = "judge"
    /\ UNCHANGED <<disk, config, result, fixed_count, ti, test_ctx, attempt,
                   fixes, fi, original_content, apply_ok, exit_code, status,
                   gen_calls, got_fixes, wrote, pre_apply, writer>>
    /\ UNCHANGED <<pool, probe>>

\* main after the initial run reported both tests failing.
OracleInit == \E n \in 1..MaxAgents : AfterInitialRun(n, TwoTests)

OracleNext ==
    \/ ForTest
    \/ ForAttempt
    \/ ForFix
    \/ RunTestsOnDisk
    \/ Judge
    \/ Report

OracleSpec == OracleInit /\ [][OracleNext]_vars

\* ------------------------- detect_test_framework and parse_failed_tests
\* main at its first statement with the option --framework fw and the
\* other options at 1 agent, 1 attempt, no dry run; p is the position.
AtStart(p, fw) ==
    /\ pc = p
    /\ disk = [f \in Files |-> IF f = "a" THEN "oa" ELSE "ob"]
    /\ framework = fw
    /\ agents = 1
    /\ dry_run = FALSE
    /\ max_attempts = 1
    /\ result = NoResult
    /\ fixed_count = 0
    /\ ti = 1
    /\ test_ctx = NoCtx
    /\ attempt = NoAttempt
    /\ fixes = <<>>
    /\ fi = 0
    /\ original_content = Empty
    /\ apply_ok = TRUE
    /\ new_result = NoResult
    /\ exit_code = NoExit
    /\ status = <<>>
    /\ gen_calls = 0
    /\ got_fixes = FALSE
    /\ wrote = FALSE
    /\ reran = FALSE
    /\ pre_apply = None
    /\ writer = [f \in Files |-> "nobody"]
    /\ NoPool

\* Files detect_test_framework looks for, and one it does not look for.
MarkerFiles ==
    {"pytest.ini", "pyproject.toml", "package.json", "Cargo.toml", "go.mod"}
OtherFiles == {"setup.py"}

\* runner.py 27-37, on the set of names that exist in the directory.
detect_test_framework_NpmFirst(names) ==
    IF "package.json" \in names THEN "npm"
    ELSE IF "pytest.ini" \in names \/ "pyproject.toml" \in names THEN "pytest"
    ELSE IF "Cargo.toml" \in names THEN "cargo"
    ELSE IF "go.mod" \in names THEN "go"
    ELSE "pytest"
detect_test_framework(names) ==
    IF "pytest.ini" \in names \/ "pyproject.toml" \in names THEN "pytest"
    ELSE IF "package.json" \in names THEN "npm"
    ELSE IF "Cargo.toml" \in names THEN "cargo"
    ELSE IF "go.mod" \in names THEN "go"
    ELSE "pytest"

\* cli.py 48-49: --framework auto is replaced by what is detected.
DetectFramework ==
    /\ pc = "options"
    /\ framework' = IF framework = "auto"
                    THEN detect_test_framework(present)
                    ELSE framework
    /\ pc' = "start"
    /\ UNCHANGED <<disk, agents, dry_run, max_attempts, result, fixed_count,
                   ti, test_ctx, attempt, fixes, fi, original_content,
                   apply_ok, new_result, exit_code, status, tallies,
                   pre_apply, writer, pool, probe>>

DetectInit ==
    /\ AtStart("options", "auto")
    /\ present \in SUBSET (MarkerFiles \cup OtherFiles)
    /\ output = <<>>
    /\ li = 0
    /\ failed = <<>>

DetectNext == DetectFramework

DetectSpec == DetectInit /\ [][DetectNext]_vars

\* Most lines of output tried.
MaxLines == 2

\* A line is the sequence of the pieces it is written with; its text is
\* their concatenation. Sp is a blank; the other pieces have no blank at
\* either end and none is the cross of the npm reporters but Cross.
Sp == " "
Cross == "CROSS"
IdPieces == {"t.py::a", "t.py::b"}

\* Whether the text sub occurs in a piece (no text looked for occurs across
\* two pieces of the lines below).
PieceHas(piece, sub) ==
    CASE sub = "::" -> piece \in IdPieces
      [] sub = "FAIL" -> piece \in {"FAIL", "FAILED", "--- FAIL:"}
      [] OTHER -> piece = sub

\* sub in line
Has(line, sub) == \E i \in DOMAIN line : PieceHas(line[i], sub)

\* Lines of pytest -v (progress lines, short summary lines), of go test,
\* of cargo test and of an npm reporter.
LineShapes ==
    { <<>>,
      <<"t.py::a", Sp, "FAILED", Sp, Sp, "[", Sp, "50%]">>,
      <<"t.py::b", Sp, "PASSED", Sp, Sp, "[100%]">>,
      <<"FAILED", Sp, "t.py::a", Sp, "-", Sp, "Err">>,
      <<"FAILED", Sp, "t.py::b">>,
      <<"PASSED", Sp, "t.py::b">>,
      <<"--- FAIL:", Sp, "TestA", Sp, "(0.01s)">>,
      <<"PASS">>,
      <<"FAIL", Sp, "pkg">>,
      <<"test result:", Sp, "ok.">>,
      <<Sp, Cross, Sp, "adds">> }

Outputs == UNION {[1..k -> LineShapes] : k \in 0..MaxLines}

\* line.strip()
strip(line) ==
    LET inked == {i \in DOMAIN line : line[i] # Sp} IN
      IF inked = {} THEN <<>>
      ELSE SubSeq(line, CHOOSE i \in inked : \A j \in inked : i <= j,
                        CHOOSE i \in inked : \A j \in inked : i >= j)

\* line.split(sep)[1], for a line that has the piece sep
split_1(line, sep) ==
    LET at == {i \in DOMAIN line : line[i] = sep}
        first == CHOOSE i \in at : \A j \in at : i <= j
        later == {i \in at : i > first} IN
      SubSeq(line, first + 1,
             IF later = {} THEN Len(line)
             ELSE (CHOOSE i \in later : \A j \in later : i <= j) - 1)

\* text.split()[0], for a text that starts with no blank
split_0(text) ==
    LET blanks == {i \in DOMAIN text : text[i] = Sp} IN
      IF blanks = {} THEN text
      ELSE SubSeq(text, 1, (CHOOSE i \in blanks : \A j \in blanks : i <= j) - 1)

\* line.replace(piece, "")
remove(line, piece) == SelectSeq(line, LAMBDA x : x # piece)

\* runner.py 73-94: what one line adds to failed: nothing, or one entry.
parse_line(line, fw) ==
    CASE fw = "pytest" ->
           IF Has(line, "FAILED") /\ Has(line, "::")
           THEN LET parts == strip(split_1(line, "FAILED")) IN
                  IF parts # <<>> THEN <<split_0(parts)>> ELSE <<>>
           ELSE <<>>
      [] fw = "npm" ->
           IF Has(line, Cross) \/ Has(line, "FAIL")
           THEN <<strip(line)>> ELSE <<>>
      [] fw = "cargo" ->
           IF Has(line, "FAILED") \/ Has(line, "test result:")
           THEN <<strip(line)>> ELSE <<>>
      [] fw = "go" ->
           IF Has(line, "--- FAIL:")
           THEN <<strip(remove(line, "--- FAIL:"))>> ELSE <<>>
      [] OTHER -> <<>>

\* runner.py 69-96: the loop over the lines, one line per step.
ParseLine ==
    /\ pc = "start"
    /\ li < Len(output)
    /\ li' = li + 1
    /\ failed' = failed \o parse_line(output[li + 1], framework)
    /\ UNCHANGED <<main, pool, present, output>>

ParseInit ==
    /\ \E fw \in Frameworks : AtStart("start", fw)
    /\ present = {}
    /\ output \in Outputs
    /\ li = 0
    /\ failed = <<>>

ParseNext == ParseLine

ParseSpec == ParseInit /\ [][ParseNext]_vars

\* ------------------------------------------------------------------ claims
\* The test whose processing ended last, while main is between tests.
BetweenTests == pc = "for_test" /\ ti > 1
Finished == ti - 1
\* Steps: a round of generation, an apply_fix of a fix, a re-run, a verdict
\* that rejects.
GenStep == pc = "for_attempt" /\ gen_calls' = gen_calls + 1
ApplyStep == pc = "for_fix" /\ fi' = fi + 1 /\ ~dry_run
RerunStep == pc = "run_tests" /\ pc' = "judge"
RejectStep == pc = "judge" /\ fixed_count' = fixed_count

\* C1: after a fix is rejected, the file it names holds what it held
\* immediately before the fix was applied. Stated for the rejections whose
\* revert write succeeded, where nothing but the program decides the content.
C1_RevertRestoresTarget ==
    [][(RejectStep /\ writer'[fix.file] = "revert")
          => disk'[fix.file] = pre_apply]_vars

\* C2: a re-run that could not run (passed false, no failing test listed)
\* neither marks the test Fixed nor counts it, and the next fix or attempt
\* follows.
C2_FailedRerunInconclusive ==
    [][(pc = "judge" /\ ~new_result.passed /\ new_result.failed_tests = <<>>)
          => /\ fixed_count' = fixed_count
             /\ status'[ti] # "Fixed"
             /\ pc' \in {"for_fix", "for_attempt"}]_vars

\* C3: an applied fix is accepted (the test becomes Fixed, fixed_count
\* grows by one) exactly when the re-run passed or does not list the test;
\* otherwise it is rejected: nothing is counted, the revert is written and
\* the next fix follows; and nothing else counts a test or marks it Fixed.
C3_AcceptanceRule ==
    [][/\ pc = "judge" =>
            IF new_result.passed
               \/ \A k \in DOMAIN new_result.failed_tests :
                     new_result.failed_tests[k] # test_name
            THEN /\ fixed_count' = fixed_count + 1
                 /\ status'[ti] = "Fixed"
            ELSE /\ fixed_count' = fixed_count
                 /\ status' = status
                 /\ writer'[fix.file] \in {"revert", "rejected"}
                 /\ pc' = "for_fix"
                 /\ fi' = fi
       /\ fixed_count' # fixed_count => pc = "judge"
       /\ \A i \in DOMAIN status' :
            (status'[i] = "Fixed" /\ status[i] # "Fixed")
               => (pc = "judge" /\ i = ti)]_vars

\* C3 witness: a test was Fixed by a fix accepted after another fix had
\* been rejected and reverted.
C3_Witness ==
    /\ BetweenTests
    /\ status[Finished] = "Fixed"
    /\ fixed_count = 1
    /\ writer["a"] = "revert"
    /\ writer["b"] = "accepted"

\* C4: a test that is Fixed stays Fixed and is never again the test the
\* loop works on (no generation, apply, re-run or verdict for it), and the
\* step that accepts leaves the accepted content in the file.
C4_FixedIsFinal ==
    [][/\ \A i \in DOMAIN status :
            status[i] = "Fixed" =>
               /\ status'[i] = "Fixed"
               /\ ti' > i
               /\ ~(ti = i /\ (GenStep \/ ApplyStep \/ RerunStep
                               \/ pc = "judge"))
       /\ (pc = "judge" /\ status'[ti] = "Fixed") =>
               /\ disk' = disk
               /\ disk'[fix.file] = fix.new_content
               /\ ti' = ti + 1
               /\ pc' = "for_test"]_vars

\* C4 witness: the first test was Fixed by the first of two fixes, and the
\* loop is at work on the second test.
C4_Witness ==
    /\ ti = 2
    /\ status[1] = "Fixed"
    /\ agents = 2
    /\ pc = "run_tests"
    /\ gen_calls = 1

\* C5: fixed_count never exceeds the number of initially failing tests; the
\* attempt index, once bound, is in [0, max_attempts), starts at 0 and grows
\* by one; at most max_attempts rounds are run for a test and none after it
\* is Fixed.
C5_CountAndAttemptBounds ==
    [][/\ fixed_count' <= Len(result'.failed_tests)
       /\ attempt' # NoAttempt => (0 <= attempt' /\ attempt' < max_attempts)
       /\ attempt' # attempt =>
             \/ attempt' = NoAttempt
             \/ attempt = NoAttempt /\ attempt' = 0
             \/ attempt # NoAttempt /\ attempt' = attempt + 1
       /\ gen_calls' <= max_attempts
       /\ attempt' # NoAttempt => gen_calls' = attempt' + 1
       /\ gen_calls' > gen_calls =>
             /\ gen_calls' = gen_calls + 1
             /\ status[ti] = "Attempting"
             /\ \A i \in DOMAIN status : status[i] = "Fixed" => i < ti]_vars

\* C5 witness: a test used both of two attempts and ended Exhausted after
\* an earlier test was Fixed.
C5_Witness ==
    /\ BetweenTests
    /\ status[Finished] = "Exhausted"
    /\ max_attempts = 2
    /\ attempt = 1
    /\ fixed_count = 1

\* C6: when a fix is about to be applied, no fix applied and rejected
\* before it is still the content of its file.
C6_OneLiveCandidate ==
    (pc = "for_fix" /\ fi < Len(fixes) /\ ~dry_run)
       => \A f \in Files : writer[f] \notin {"rejected", "live"}

\* C7: when every round for a test with source returned no fix, the test
\* ends Exhausted after exactly max_attempts rounds, with no apply_fix call
\* and no re-run.
C7_ExhaustionWithoutCandidates ==
    /\ (InLoop /\ ~got_fixes)
          => (~wrote /\ ~reran /\ status[ti] = "Attempting")
    /\ (BetweenTests /\ status[Finished] # "NoContext" /\ ~got_fixes)
          => /\ status[Finished] = "Exhausted"
             /\ gen_calls = max_attempts
             /\ ~wrote
             /\ ~reran

\* C7 witness: two rounds, both without a fix, and the test Exhausted.
C7_Witness ==
    /\ BetweenTests
    /\ status[Finished] = "Exhausted"
    /\ ~got_fixes
    /\ gen_calls = 2

\* C8: a test whose context has no source goes straight to the
\* no-context end: no round, no attempt, no write, no re-run, the files
\* untouched, and the next test is taken up.
C8_NoContextSkipsTest ==
    [][/\ (pc = "for_test" /\ ti <= Len(result.failed_tests)
           /\ test_ctx'.source = Empty)
             => /\ status'[ti] = "NoContext"
                /\ ti' = ti + 1
                /\ pc' = "for_test"
                /\ disk' = disk
                /\ attempt' = NoAttempt
                /\ gen_calls' = 0 /\ ~wrote' /\ ~reran'
       /\ (InLoop /\ test_ctx.source = Empty)
             => UNCHANGED <<disk, tallies, attempt>>]_vars

\* C8 witness: a pytest identifier whose file does not exist was skipped,
\* and the test after it is being worked on.
C8_Witness ==
    /\ framework = "pytest"
    /\ ti = 2
    /\ status[1] = "NoContext"
    /\ Len(result.failed_tests[1]) > 1
    /\ pc = "for_fix"

\* C9: a run that has ended has taken up every initially failing test.
C9_NeverAbortsEarly ==
    exit_code # NoExit =>
       /\ pc = "done"
       /\ \A i \in DOMAIN status :
            (~result.passed => status[i] # "Pending")

\* C10: when apply_fix returns False for a fix, no re-run follows it, the
\* test is not marked Fixed or counted, and the next fix is looked at; a
\* re-run only ever follows an apply_fix that returned True.
C10_ApplyFailureRejects ==
    [][/\ (ApplyStep /\ ~apply_ok')
             => /\ pc' = "for_fix"
                /\ reran' = reran
                /\ fixed_count' = fixed_count
                /\ status' = status
                /\ ti' = ti
       /\ pc' = "run_tests" => apply_ok'
       /\ RerunStep => apply_ok]_vars

\* C10 witness: an apply_fix returned False, nothing was re-run, and
\* another fix of the same attempt is next.
C10_Witness ==
    /\ pc = "for_fix"
    /\ ~apply_ok
    /\ fi = 1
    /\ Len(fixes) = 2
    /\ wrote
    /\ ~reran

\* What a run tells its user about its tests: the message printed for each
\* test ("Fixed", "Could not fix", no source), the final count and the exit
\* status.
Reported == <<status, fixed_count, exit_code>>

\* A verdict that rejects and whose reverting write raised.
RevertFailedStep == RejectStep /\ writer'[fix.file] = "rejected"

\* C11: when the write that restores the snapshot after a rejection fails,
\* the run goes on with the next fix and the run records it: what the run
\* reports differs from what it reports when the revert succeeds.
C11_RevertFailureFlagged ==
    [][RevertFailedStep
          => /\ pc' = "for_fix"
             /\ exit_code' = NoExit
             /\ Reported' # Reported]_vars

\* C12 as stated: a run that completes exits non-zero exactly when no test
\* was fixed, the runs whose initial run passes included.
C12_ExitNonZeroIffNoneFixed ==
    pc = "done" => (exit_code # 0 <=> fixed_count = 0)

\* C12 amended: a run that completes exits 0 when the initial run passed or
\* at least one test was fixed, and 1 otherwise (nothing parsed from a
\* failing initial run included).
C12_ExitStatus ==
    pc = "done" =>
       exit_code = IF result.passed \/ fixed_count > 0 THEN 0 ELSE 1

\* C12 witness: a run ended with exit status 0 after fixing one of two
\* failing tests and giving up on the other.
C12_Witness ==
    /\ pc = "done"
    /\ ~result.passed
    /\ Len(result.failed_tests) = 2
    /\ fixed_count = 1
    /\ exit_code = 0
    /\ \E i \in DOMAIN status : status[i] = "Exhausted"

\* C15: with --dry-run fixes are generated and looked at one after the
\* other, but no step writes a file, no re-run follows a fix and nothing is
\* accepted or reverted: the files stay as they were at the start.
C15_DryRunWritesNothing ==
    [][dry_run
          => /\ disk' = disk
             /\ writer' = [f \in Files |-> "nobody"]
             /\ ~wrote' /\ ~reran'
             /\ pc' \notin {"run_tests", "judge"}
             /\ fixed_count' = 0
             /\ (pc = "for_fix" /\ fi < Len(fixes))
                   => (fi' = fi + 1 /\ pc' = "for_fix")]_vars

\* C15 witness: in a dry run two fixes were generated and both were shown,
\* with nothing written.
C15_Witness ==
    /\ dry_run
    /\ pc = "for_fix"
    /\ Len(fixes) = 2
    /\ fi = 2
    /\ gen_calls = 2
    /\ ~wrote

\* What both readings of C20 share: a context has source only for pytest,
\* an identifier with "::" and an existing, non-empty file; under another
\* framework nothing is generated, written or counted.
NoSourceOutsidePytest ==
    /\ (test_ctx' # test_ctx /\ test_ctx'.source # Empty)
          => /\ framework = "pytest"
             /\ Len(test_ctx'.name) > 1
             /\ test_ctx'.file = test_ctx'.name[1]
             /\ disk[test_ctx'.file] \notin {Absent, Empty}
             /\ test_ctx'.source = disk[test_ctx'.file]
    /\ framework # "pytest"
          => /\ gen_calls' = 0
             /\ tasks' = <<>>
             /\ disk' = disk
             /\ ~wrote'
             /\ fixed_count' = 0
             /\ \A i \in DOMAIN status' :
                   status'[i] \in {"Pending", "NoContext"}

\* C20 as stated: ... and every run under npm, cargo or go exits non-zero.
C20_NonPytestExitsNonZero ==
    [][/\ NoSourceOutsidePytest
       /\ (framework # "pytest" /\ pc' = "done") => exit_code' # 0]_vars

\* C20 amended: ... and a run under npm, cargo or go exits non-zero unless
\* its initial run passes, in which case it exits 0.
C20_NonPytestFixesNothing ==
    [][/\ NoSourceOutsidePytest
       /\ (framework # "pytest" /\ pc' = "done")
             => exit_code' = IF result'.passed THEN 0 ELSE 1]_vars

\* C20 witness: a go run with two failing tests ended with both skipped for
\* want of source, and exit status 1.
C20_Witness ==
    /\ framework = "go"
    /\ pc = "done"
    /\ Len(result.failed_tests) = 2
    /\ \A i \in DOMAIN status : status[i] = "NoContext"
    /\ Len(result.failed_tests[1]) > 1
    /\ disk[result.failed_tests[1][1]] # Absent
    /\ exit_code = 1

\* C19: at the end of the run every test that was accepted as Fixed passes
\* on the files as they then are, and while a later test is worked on a
\* Fixed test does not fail again.
C19_FixedStaysFixed ==
    \A i \in DOMAIN status :
       (status[i] = "Fixed" /\ pc \in {"for_test", "done"})
          => PassesOn(result.failed_tests[i], disk)

\* ---------------------------------------- claims on run_parallel_agents
\* Place of task k in the order of finishing.
DonePos(k) == CHOOSE p \in DOMAIN done_order : done_order[p] = k
\* Task k returned a FixAttempt with content.
HasContent(k) == tasks[k].state = "returned" /\ KeepFix(tasks[k].out)
\* The tasks of a list that returned content, and what a list of tasks
\* returned.
KeptTasks(order) == SelectSeq(order, HasContent)
OutOf(order) == [j \in DOMAIN order |-> tasks[order[j]].out]

AllTasksDone ==
    /\ Len(tasks) = agents
    /\ \A k \in DOMAIN tasks : IsDone(tasks[k])
\* main is applying, verifying or reverting a fix.
Applying == pc \in {"for_fix", "run_tests", "judge"}
\* run_parallel_agents returns.
ReturnStep == pc = "collect" /\ pc' # "collect"

\* Whatever its tasks did, the call returns the FixAttempts with content of
\* the tasks that returned one, each task once, after every task has ended.
ExactResult ==
    ReturnStep
       => /\ AllTasksDone
          /\ Len(yielded) = agents
          /\ \A k \in 1..agents : \E j \in DOMAIN yielded : yielded[j] = k
          /\ fixes' = OutOf(KeptTasks(yielded))
          /\ Len(fixes') =
                Cardinality({k \in DOMAIN tasks : HasContent(k)})
          /\ Len(fixes') <= agents

\* C13: for any set of failing tasks and any interleaving, the call of
\* run_parallel_agents never raises, and it returns exactly the FixAttempts
\* of the tasks that returned non-empty content (at most agents, maybe none).
C13_SiblingIsolation ==
    [][pc' # "crashed" /\ ExactResult]_vars

\* Tasks are yielded in the order they finished; with loose, those that had
\* finished when as_completed began may come in any order among themselves.
YieldedInDoneOrder(order, loose) ==
    \A p, q \in DOMAIN order :
       p < q =>
          \/ DonePos(order[p]) < DonePos(order[q])
          \/ loose /\ DonePos(order[p]) <= snap /\ DonePos(order[q]) <= snap

C18_DiversityParameters ==
    agents >= 1 =>
       /\ Len(Presets) = 5
       /\ Len(tasks) <= agents
       /\ pc = "collect" => Len(tasks) = agents
       /\ \A k \in DOMAIN tasks :
            /\ tasks[k].agent_id = k - 1
            /\ tasks[k].temperature = Presets[((k - 1) % 5) + 1]
       /\ agents <= 5 =>
            \A j, k \in DOMAIN tasks :
               j # k => tasks[j].temperature # tasks[k].temperature
       /\ \A j, k \in DOMAIN tasks :
            k = j + 5 => tasks[k].temperature = tasks[j].temperature

\* C18 witness: six agents were asked for, six tasks were submitted and are
\* running, and the sixth got the first task's temperature.
C18_Witness ==
    /\ agents = 6
    /\ pc = "collect"
    /\ Len(tasks) = 6
    /\ \A k \in DOMAIN tasks : tasks[k].state = "running"
    /\ tasks[6].agent_id = 5
    /\ tasks[6].temperature = 3

\* ------------------ claims on detect_test_framework, parse_failed_tests
\* C16: with --framework auto the framework is pytest whenever pytest.ini
\* or pyproject.toml exists, else npm when package.json exists, else cargo
\* when Cargo.toml exists, else go when go.mod exists, else pytest, for
\* every combination of files.
C16_DetectPriority ==
    pc = "start" =>
       LET py == "pytest.ini" \in present \/ "pyproject.toml" \in present
           npm == "package.json" \in present
           cargo == "Cargo.toml" \in present
           go == "go.mod" \in present IN
         /\ py => framework = "pytest"
         /\ (~py /\ npm) => framework = "npm"
         /\ (~py /\ ~npm /\ cargo) => framework = "cargo"
         /\ (~py /\ ~npm /\ ~cargo /\ go) => framework = "go"
         /\ (~py /\ ~npm /\ ~cargo /\ ~go) => framework = "pytest"

\* C16 witness: cargo was detected in a directory that has Cargo.toml and
\* go.mod, and neither package.json nor a pytest file.
C16_Witness ==
    /\ pc = "start"
    /\ present = {"Cargo.toml", "go.mod", "setup.py"}
    /\ framework = "cargo"

\* The identifier a pytest line names.
IdOf(line) == CHOOSE x \in IdPieces : \E i \in DOMAIN line : line[i] = x
\* The lines among the first n of output that satisfy Test.
LinesThat(n, Test(_)) == SelectSeq(SubSeq(output, 1, n), Test)

\* C17: failed has one entry for each line that reports a failed test, in
\* the order of the lines, and none for another line: for pytest the
\* identifier path::name of each FAILED line, for go one entry for each
\* "--- FAIL:" line.
C17_OneEntryPerFailure ==
    /\ framework = "pytest" =>
          LET hits == LinesThat(li, LAMBDA l : Has(l, "FAILED") /\ Has(l, "::")) IN
            failed = [k \in DOMAIN hits |-> <<IdOf(hits[k])>>]
    /\ framework = "go" =>
          Len(failed) = Len(LinesThat(li, LAMBDA l : Has(l, "--- FAIL:")))

====
